---- MODULE Spec2Model ----
(***************************************************************************)
(* Model of optimize_geojson.py: the coordinate counter, the coordinate    *)
(* rounder, Douglas-Peucker line simplification, the per-type geometry     *)
(* simplifier and the per-feature optimization loop.                       *)
(*                                                                         *)
(* Python objects are modelled with their identity.  A JSON list is an     *)
(* object of the heap mem.lists, a geometry dict an object of mem.dicts;   *)
(* a variable holds a reference, so two names can alias one object and an  *)
(* assignment geometry['coordinates'] = ... changes what every alias sees. *)
(*                                                                         *)
(* Numbers are counted in halves (the integer 3 stands for 1.5): halves    *)
(* are exact binary floats, so round(x, 0) is exactly round-half-to-even   *)
(* on them.  A distance is carried as the exact fraction of its square, so *)
(* that the comparisons d > dmax and dmax > tolerance are decided exactly. *)
(***************************************************************************)
EXTENDS Integers, Sequences, FiniteSets, TLC

VARIABLES
    mem,        \* the heap: [lists |-> list objects, dicts |-> geometry dicts]
    simplify_tolerance,  \* a fraction [n, d] of halves, >= 0
    coord_precision,
    call,       \* call harness: the function applied ("none" before the call)
    arg,        \* call harness: the argument (a reference)
    ret,        \* call harness: the returned value
    pre,        \* call harness: the argument's value before the call (history)
    features,   \* optimize_geojson: data['features'], a sequence of features
    orig,       \* optimize_geojson: the features' values before the pass (history)
    idx,        \* optimize_geojson: loop index (1-based position of the feature)
    pc,         \* optimize_geojson: position in the loop body
    geom,       \* optimize_geojson: local geom
    work_geom,  \* optimize_geojson: simplified_geom / rounded_geom
    coords_before,
    optimized_features,
    total_coords_before,
    total_coords_after

vars == <<mem, simplify_tolerance, coord_precision, call, arg, ret, pre, features, orig, idx,
          pc, geom, work_geom, coords_before, optimized_features,
          total_coords_before, total_coords_after>>

(***************************************************************************)
(* Bounds of the model.                                                    *)
(***************************************************************************)
MaxPts == 4        \* longest line handed to simplify_line
MaxRingPts == 5    \* most points in one Polygon / MultiLineString
MaxPolyPts == 4    \* most points in one MultiPolygon
MaxMulti == 2      \* most entries of a MultiPoint, members of a collection
MaxFeatures == 2   \* most features in the collection

(***************************************************************************)
(* Python values.  An element of a list, or the value of a name, is a      *)
(* number, a reference to a list object, a reference to a dict, or None.   *)
(***************************************************************************)
Num(i) == [k |-> "num", v |-> i]
Ref(n) == [k |-> "ref", v |-> n]
DictRef(n) == [k |-> "dict", v |-> n]
None == [k |-> "none", v |-> 0]

IsNumber(e) == e.k = "num"      \* isinstance(e, (int, float))
IsList(e) == e.k = "ref"        \* isinstance(e, list)

Items(M, e) == M.lists[e.v]     \* the items of the list object e refers to
PyLen(M, e) == Len(M.lists[e.v])

\* a list display / comprehension / slice / concatenation makes a new object
NewList(M, items) ==
    [mem |-> [M EXCEPT !.lists = Append(@, items)], r |-> Ref(Len(M.lists) + 1)]

\* the new list of the items gathered in s = [mem, items]
NewListOf(s) == NewList(s.mem, s.items)

EmptyMem == [lists |-> <<>>, dicts |-> <<>>]

(***************************************************************************)
(* JSON values, as read by json.load: the value without object identity.   *)
(***************************************************************************)
JNum(i) == [k |-> "num", v |-> i]
JList(s) == [k |-> "list", v |-> s]

RECURSIVE CountLists(_)
RECURSIVE CountListsUpTo(_, _)
\* the number of list objects a JSON value needs: one for every array in it
CountLists(j) ==
    IF j.k = "num" THEN 0 ELSE 1 + CountListsUpTo(j.v, Len(j.v))
\* ... that the first n items of js need
CountListsUpTo(js, n) ==
    IF n = 0 THEN 0 ELSE CountListsUpTo(js, n - 1) + CountLists(js[n])

\* the Python value of a JSON value whose list objects come after the first
\* base objects of the heap, its own list last
Stored(j, base) ==
    IF j.k = "num" THEN Num(j.v) ELSE Ref(base + CountLists(j))

RECURSIVE Objects(_, _)
RECURSIVE ObjectsUpTo(_, _, _)
\* the list objects of a JSON array, items before the list that holds them
Objects(j, base) ==
    IF j.k = "num" THEN <<>>
    ELSE Append(ObjectsUpTo(j.v, Len(j.v), base),
                [i \in 1..Len(j.v) |-> Stored(j.v[i], base + CountListsUpTo(j.v, i - 1))])
ObjectsUpTo(js, n, base) ==
    IF n = 0 THEN <<>>
    ELSE ObjectsUpTo(js, n - 1, base)
         \o Objects(js[n], base + CountListsUpTo(js, n - 1))

\* json.load, or a nest of list comprehensions: a fresh object for every
\* array of the value.  Returns [mem, r]
Store(M, j) ==
    [mem |-> [M EXCEPT !.lists = @ \o Objects(j, Len(@))],
     r |-> Stored(j, Len(M.lists))]

RECURSIVE Deref(_, _)
\* the JSON value a Python value stands for (what json.dump would write)
Deref(M, e) ==
    IF e.k = "num" THEN JNum(e.v)
    ELSE JList([i \in 1..Len(M.lists[e.v]) |-> Deref(M, M.lists[e.v][i])])

(***************************************************************************)
(* Distances.  perpendicular_distance returns a float d >= 0; the model    *)
(* carries d*d as the fraction n/d and compares fractions exactly.         *)
(***************************************************************************)
Abs(a) == IF a < 0 THEN -a ELSE a
Zero == [n |-> 0, d |-> 1]
Square(f) == [n |-> f.n * f.n, d |-> f.d * f.d]
Greater(a, b) == a.n * b.d > b.n * a.d      \* a > b, both squares

Coord(M, point, i) == M.lists[point.v][i].v  \* point[i-1]

\* num / den of the source, squared: num * num over den2 = den * den; when
\* den is 0, the square of the distance from (x, y) to (x1, y1)
\* a variant without the fallback for line_start = line_end, the distance
\* taken as 0 there: C9 tells it from DistanceSquared
DistanceSquaredNoFallback(num, den2, x, y, x1, y1) ==
    IF den2 = 0 THEN Zero ELSE [n |-> num * num, d |-> den2]

DistanceSquared(num, den2, x, y, x1, y1) ==
    IF den2 = 0
    THEN [n |-> (x - x1) * (x - x1) + (y - y1) * (y - y1), d |-> 1]
    ELSE [n |-> num * num, d |-> den2]

PointToLine(x, y, x1, y1, x2, y2) ==
    DistanceSquared(Abs((y2 - y1) * x - (x2 - x1) * y + x2 * y1 - y2 * x1),
                    (y2 - y1) * (y2 - y1) + (x2 - x1) * (x2 - x1),
                    x, y, x1, y1)

perpendicular_distance(M, point, line_start, line_end) ==
    PointToLine(Coord(M, point, 1), Coord(M, point, 2),
                Coord(M, line_start, 1), Coord(M, line_start, 2),
                Coord(M, line_end, 1), Coord(M, line_end, 2))

RECURSIVE FarthestFrom(_, _, _, _, _)
RECURSIVE Farther(_, _, _, _, _, _)
\* a variant of the loop that stops one point early, "range(1, end - 1)":
\* C2 tells it from FarthestFrom
FarthestFromShort(M, points, i, index, dmax) ==
    IF i >= Len(points) - 1 THEN [index |-> index, dmax |-> dmax]
    ELSE Farther(M, points, i, index, dmax,
                 perpendicular_distance(M, points[i], points[1], points[Len(points)]))
\* the loop "for i in range(1, end)": position i (1-based), running index, dmax
FarthestFrom(M, points, i, index, dmax) ==
    IF i >= Len(points) THEN [index |-> index, dmax |-> dmax]
    ELSE Farther(M, points, i, index, dmax,
                 perpendicular_distance(M, points[i], points[1], points[Len(points)]))
\* the loop body: "if d > dmax: index = i; dmax = d"
Farther(M, points, i, index, dmax, d) ==
    IF Greater(d, dmax)
    THEN FarthestFrom(M, points, i + 1, i, d)
    ELSE FarthestFrom(M, points, i + 1, index, dmax)

\* a variant that keeps the split point twice, "rec_results1 + rec_results2":
\* C1 tells it from Joined
JoinedKeepingJoint(rec_results1, rec_results2) == rec_results1 \o rec_results2

\* rec_results1[:-1] + rec_results2
Joined(rec_results1, rec_results2) ==
    SubSeq(rec_results1, 1, Len(rec_results1) - 1) \o rec_results2

RECURSIVE douglas_peucker(_, _, _)
RECURSIVE SplitAt(_, _, _, _)
\* points: the items of a list; the result: the items of the returned list
douglas_peucker(M, points, tol) ==
    IF Len(points) <= 2 THEN points
    ELSE SplitAt(M, points, tol, FarthestFrom(M, points, 2, 1, Zero))
\* "if dmax > tolerance: ... else: ...", far = [index, dmax] after the loop
SplitAt(M, points, tol, far) ==
    IF Greater(far.dmax, Square(tol))
    THEN Joined(douglas_peucker(M, SubSeq(points, 1, far.index), tol),
                douglas_peucker(M, SubSeq(points, far.index, Len(points)), tol))
    ELSE <<points[1], points[Len(points)]>>

\* returns [mem, r]: the input list itself when it has at most 2 points,
\* otherwise a new list whose items are the retained point objects
\* a variant that writes the simplified points into the list passed in,
\* "coords[:] = douglas_peucker(coords, tolerance)": C5 tells it from
\* simplify_line
simplify_line_in_place(M, coords, tol) ==
    IF PyLen(M, coords) <= 2 THEN [mem |-> M, r |-> coords]
    ELSE [mem |-> [M EXCEPT !.lists[coords.v] = douglas_peucker(M, Items(M, coords), tol)],
          r |-> coords]

simplify_line(M, coords, tol) ==
    IF PyLen(M, coords) <= 2 THEN [mem |-> M, r |-> coords]
    ELSE NewList(M, douglas_peucker(M, Items(M, coords), tol))

(***************************************************************************)
(* Geometry dicts.  A dict object records which of the keys 'type',        *)
(* 'coordinates' and 'geometries' it has; geometries holds references to   *)
(* the member dicts of a GeometryCollection.                               *)
(***************************************************************************)
Geometry(hasType, type, hasCoords, coordinates, hasGeoms, geometries) ==
    [hasType |-> hasType, type |-> type, hasCoords |-> hasCoords,
     coordinates |-> coordinates, hasGeoms |-> hasGeoms, geometries |-> geometries]

NewDict(M, d) ==
    [mem |-> [M EXCEPT !.dicts = Append(@, d)], r |-> DictRef(Len(M.dicts) + 1)]

\* "not geometry": None, or a dict without any key
Falsy(M, g) ==
    \/ g.k = "none"
    \/ /\ g.k = "dict"
       /\ ~M.dicts[g.v].hasType
       /\ ~M.dicts[g.v].hasCoords
       /\ ~M.dicts[g.v].hasGeoms

\* geometry.get('type', '')
GetType(M, g) == IF M.dicts[g.v].hasType THEN M.dicts[g.v].type ELSE ""

\* the items of geometry.get('coordinates', []), where the list is only read
GetItems(M, g) ==
    IF M.dicts[g.v].hasCoords THEN Items(M, M.dicts[g.v].coordinates) ELSE <<>>

\* geometry.get('geometries', [])
GetGeometries(M, g) ==
    IF M.dicts[g.v].hasGeoms THEN M.dicts[g.v].geometries ELSE <<>>

\* coords = geometry.get('coordinates', []): [mem, r], a new empty list when
\* the key is absent
GetCoordinates(M, g) ==
    IF M.dicts[g.v].hasCoords THEN [mem |-> M, r |-> M.dicts[g.v].coordinates]
    ELSE NewList(M, <<>>)

\* geometry['coordinates'] = r
SetCoordinates(M, g, r) ==
    [M EXCEPT !.dicts[g.v].hasCoords = TRUE, !.dicts[g.v].coordinates = r]

(***************************************************************************)
(* count_coordinates                                                       *)
(***************************************************************************)
RECURSIVE SumRingLen(_, _)
\* sum(len(ring) for ring in coords)
SumRingLen(M, rings) ==
    IF rings = <<>> THEN 0
    ELSE PyLen(M, Head(rings)) + SumRingLen(M, Tail(rings))

RECURSIVE SumPolygonLen(_, _)
\* sum(sum(len(ring) for ring in polygon) for polygon in coords)
SumPolygonLen(M, polygons) ==
    IF polygons = <<>> THEN 0
    ELSE SumRingLen(M, Items(M, Head(polygons))) + SumPolygonLen(M, Tail(polygons))

RECURSIVE SumPartLen(_, _)
\* sum(len(part) if isinstance(part, list) else 1 for part in coords)
SumPartLen(M, parts) ==
    IF parts = <<>> THEN 0
    ELSE (IF IsList(Head(parts)) THEN PyLen(M, Head(parts)) ELSE 1)
         + SumPartLen(M, Tail(parts))

RECURSIVE count_coordinates(_, _)
RECURSIVE CountByType(_, _, _, _)
RECURSIVE SumMembers(_, _)
count_coordinates(M, geometry) ==
    IF Falsy(M, geometry) THEN 0
    ELSE CountByType(M, geometry, GetType(M, geometry), GetItems(M, geometry))
\* the if / elif chain; coords: the items of geometry.get('coordinates', [])
CountByType(M, geometry, geom_type, coords) ==
    CASE geom_type = "Point" -> 1
      [] geom_type = "LineString" -> Len(coords)
      [] geom_type = "Polygon" -> SumRingLen(M, coords)
      [] geom_type = "MultiPolygon" -> SumPolygonLen(M, coords)
      [] geom_type \in {"MultiPoint", "MultiLineString"} -> SumPartLen(M, coords)
      [] geom_type = "GeometryCollection" -> SumMembers(M, GetGeometries(M, geometry))
      [] OTHER -> 0
\* sum(count_coordinates(geom) for geom in geometry.get('geometries', []))
SumMembers(M, geoms) ==
    IF geoms = <<>> THEN 0
    ELSE count_coordinates(M, Head(geoms)) + SumMembers(M, Tail(geoms))

(***************************************************************************)
(* round_coordinates                                                       *)
(***************************************************************************)
\* round(c, precision) on a number counted in halves: with one or more
\* decimals every half is kept; with none, a half goes to the even integer
PyRound(c, precision) ==
    IF precision >= 1 \/ c % 2 = 0 THEN c
    ELSE LET below == (c - 1) \div 2       \* floor of the value
         IN IF below % 2 = 0 THEN 2 * below ELSE 2 * (below + 1)

RECURSIVE Rounded(_, _)
\* the value round_coord computes: every number rounded, every list rebuilt
\* by the comprehension "[... for c in coord]"
Rounded(j, precision) ==
    IF j.k = "num" THEN JNum(PyRound(j.v, precision))
    ELSE JList([i \in 1..Len(j.v) |-> Rounded(j.v[i], precision)])

\* returns [mem, r]: the comprehensions build a new list object at every
\* level, so nothing of the result is shared with coord
round_coord(M, coord, precision) ==
    IF IsNumber(coord) \/ IsList(coord)
    THEN Store(M, Rounded(Deref(M, coord), precision))
    ELSE [mem |-> M, r |-> coord]

\* "not coords" for coords = geometry.get('coordinates')
NoCoords(M, g) ==
    \/ ~M.dicts[g.v].hasCoords
    \/ M.dicts[g.v].coordinates.k = "none"
    \/ (IsNumber(M.dicts[g.v].coordinates) /\ M.dicts[g.v].coordinates.v = 0)
    \/ (IsList(M.dicts[g.v].coordinates) /\ PyLen(M, M.dicts[g.v].coordinates) = 0)

\* geometry['coordinates'] = s.r in the heap s.mem; the geometry is returned
Replaced(geometry, s) ==
    [mem |-> SetCoordinates(s.mem, geometry, s.r), r |-> geometry]

\* returns [mem, r]: r is the geometry passed in
round_coordinates(M, geometry, precision) ==
    IF Falsy(M, geometry) THEN [mem |-> M, r |-> geometry]
    ELSE IF NoCoords(M, geometry) THEN [mem |-> M, r |-> geometry]
    ELSE Replaced(geometry, round_coord(M, M.dicts[geometry.v].coordinates, precision))

(***************************************************************************)
(* simplify_geometry                                                       *)
(***************************************************************************)
RECURSIVE SimplifyEach(_, _, _, _, _)
RECURSIVE KeepOrFallBack(_, _, _, _, _)
\* a variant of the loop body that accepts a ring of one point less,
\* "len(simplified_ring) >= 3": C3 tells it from KeepOrFallBack
KeepOneLess(s, lines, tol, least, acc) ==
    SimplifyEach(s.mem, Tail(lines), tol, least,
                 Append(acc, IF PyLen(s.mem, s.r) >= least - 1 THEN s.r ELSE Head(lines)))
\* a variant of the loop body that drops a line or ring that came out too
\* short instead of keeping the original: C4 tells it from KeepOrFallBack
KeepOrDrop(s, lines, tol, least, acc) ==
    SimplifyEach(s.mem, Tail(lines), tol, least,
                 IF PyLen(s.mem, s.r) >= least THEN Append(acc, s.r) ELSE acc)
\* the loops over the lines of a MultiLineString (least = 2) and over the
\* rings of a polygon (least = 4)
SimplifyEach(M, lines, tol, least, acc) ==
    IF lines = <<>> THEN [mem |-> M, items |-> acc]
    ELSE KeepOrFallBack(simplify_line(M, Head(lines), tol), lines, tol, least, acc)
\* the loop body: the simplified line s.r is appended when it keeps at least
\* so many points, otherwise the original list object
KeepOrFallBack(s, lines, tol, least, acc) ==
    SimplifyEach(s.mem, Tail(lines), tol, least,
                 Append(acc, IF PyLen(s.mem, s.r) >= least THEN s.r ELSE Head(lines)))

RECURSIVE SimplifyPolygons(_, _, _, _)
RECURSIVE AppendPolygon(_, _, _, _)
RECURSIVE AppendedPolygon(_, _, _, _)
\* the loop over the polygons of a MultiPolygon
SimplifyPolygons(M, polygons, tol, acc) ==
    IF polygons = <<>> THEN [mem |-> M, items |-> acc]
    ELSE AppendPolygon(SimplifyEach(M, Items(M, Head(polygons)), tol, 4, <<>>),
                       polygons, tol, acc)
\* "if simplified_polygon: simplified_coords.append(simplified_polygon)"
AppendPolygon(s, polygons, tol, acc) ==
    IF s.items # <<>>
    THEN AppendedPolygon(NewListOf(s), polygons, tol, acc)
    ELSE SimplifyPolygons(s.mem, Tail(polygons), tol, acc)
AppendedPolygon(p, polygons, tol, acc) ==
    SimplifyPolygons(p.mem, Tail(polygons), tol, Append(acc, p.r))

\* the LineString branch: "if len(simplified) >= 2: geometry['coordinates'] = simplified"
ReplacedLine(geometry, simplified) ==
    IF PyLen(simplified.mem, simplified.r) >= 2
    THEN Replaced(geometry, simplified)
    ELSE [mem |-> simplified.mem, r |-> geometry]

\* the if / elif chain; c = [mem, r]: the heap and coords
SimplifyByType(geometry, tol, geom_type, c) ==
    CASE geom_type \in {"Point", "MultiPoint"} -> [mem |-> c.mem, r |-> geometry]
      [] geom_type = "LineString" ->
            ReplacedLine(geometry, simplify_line(c.mem, c.r, tol))
      [] geom_type = "MultiLineString" ->
            Replaced(geometry,
                     NewListOf(SimplifyEach(c.mem, Items(c.mem, c.r), tol, 2, <<>>)))
      [] geom_type = "Polygon" ->
            Replaced(geometry,
                     NewListOf(SimplifyEach(c.mem, Items(c.mem, c.r), tol, 4, <<>>)))
      [] geom_type = "MultiPolygon" ->
            Replaced(geometry,
                     NewListOf(SimplifyPolygons(c.mem, Items(c.mem, c.r), tol, <<>>)))
      [] OTHER -> [mem |-> c.mem, r |-> geometry]

\* returns [mem, r]: r is the geometry passed in, mem the heap after the call
simplify_geometry(M, geometry, tol) ==
    IF Falsy(M, geometry) THEN [mem |-> M, r |-> geometry]
    ELSE SimplifyByType(geometry, tol, GetType(M, geometry), GetCoordinates(M, geometry))

(***************************************************************************)
(* Inputs.  A geometry as json.load reads it: the JSON value of each key.  *)
(***************************************************************************)
JGeometry(hasType, type, hasCoords, coordinates, hasGeoms, geometries) ==
    [k |-> "dict", hasType |-> hasType, type |-> type, hasCoords |-> hasCoords,
     coordinates |-> coordinates, hasGeoms |-> hasGeoms, geometries |-> geometries]
\* "geometry": null
JNull == [k |-> "none", hasType |-> FALSE, type |-> "", hasCoords |-> FALSE,
          coordinates |-> JNum(0), hasGeoms |-> FALSE, geometries |-> <<>>]
\* {}
JEmpty == JGeometry(FALSE, "", FALSE, JNum(0), FALSE, <<>>)
Typed(type, coordinates) == JGeometry(TRUE, type, TRUE, coordinates, FALSE, <<>>)
NoCoordinates(type) == JGeometry(TRUE, type, FALSE, JNum(0), FALSE, <<>>)

RECURSIVE StoreGeometry(_, _)
RECURSIVE StoreMembers(_, _, _)
RECURSIVE StoreDict(_, _)
RECURSIVE StoredDict(_, _, _)
RECURSIVE StoreMoreMembers(_, _, _)
\* returns [mem, r]: the dict object json.load builds (None for null)
StoreGeometry(M, j) ==
    IF j.k = "none" THEN [mem |-> M, r |-> None]
    ELSE StoreDict(j, IF j.hasCoords THEN Store(M, j.coordinates)
                      ELSE [mem |-> M, r |-> None])
StoreDict(j, c) == StoredDict(j, c.r, StoreMembers(c.mem, j.geometries, <<>>))
StoredDict(j, coordinates, g) ==
    NewDict(g.mem, Geometry(j.hasType, j.type, j.hasCoords, coordinates,
                            j.hasGeoms, g.items))
StoreMembers(M, js, acc) ==
    IF js = <<>> THEN [mem |-> M, items |-> acc]
    ELSE StoreMoreMembers(StoreGeometry(M, Head(js)), Tail(js), acc)
StoreMoreMembers(s, js, acc) == StoreMembers(s.mem, js, Append(acc, s.r))

RECURSIVE DerefGeometry(_, _)
RECURSIVE DerefDict(_, _)
\* the JSON value of a geometry (what json.dump would write for it)
DerefGeometry(M, g) ==
    IF g.k = "none" THEN JNull ELSE DerefDict(M, M.dicts[g.v])
DerefDict(M, d) ==
    JGeometry(d.hasType, d.type, d.hasCoords,
              IF d.hasCoords THEN Deref(M, d.coordinates) ELSE JNum(0),
              d.hasGeoms,
              [i \in 1..Len(d.geometries) |-> DerefGeometry(M, d.geometries[i])])

SeqsUpTo(S, n) == UNION {[1..m -> S] : m \in 0..n}

Point2(x, y) == JList(<<JNum(x), JNum(y)>>)
Point3(x, y, z) == JList(<<JNum(x), JNum(y), JNum(z)>>)

\* the points of lines, in halves: x in 0, 0.5, 1 and y in 0, 0.5
GridPoints == {Point2(x, y) : x \in 0..2, y \in 0..1}
\* the points of rings: a triangle
RingPoints == {Point2(0, 0), Point2(2, 0), Point2(1, 1)}
\* points with an altitude
HighPoints == {Point3(1, 0, 3), Point3(2, 1, 3)}

LineInputs == SeqsUpTo(GridPoints, MaxPts)

\* tolerances, in halves: 0, 1/2, 1, 3 (0, 0.25, 0.5 and 1.5)
Fraction(n, d) == [n |-> n, d |-> d]
Tolerances == {Fraction(0, 1), Fraction(1, 2), Fraction(1, 1), Fraction(3, 1)}
Precisions == {0, 1}

RingCounts == 0..2
PolygonCounts == 0..2

RECURSIVE Sum(_)
Sum(lens) == IF lens = <<>> THEN 0 ELSE Head(lens) + Sum(Tail(lens))
RECURSIVE SumSum(_)
SumSum(shape) == IF shape = <<>> THEN 0 ELSE Sum(Head(shape)) + SumSum(Tail(shape))

RECURSIVE RingShapes(_, _)
\* the ring lengths of a polygon of so many rings, at most budget points in all
RingShapes(budget, rings) ==
    IF rings = 0 THEN {<<>>}
    ELSE UNION {{<<n>> \o t : t \in RingShapes(budget - n, rings - 1)} : n \in 0..budget}
PolygonShapes(budget) == UNION {RingShapes(budget, r) : r \in RingCounts}

RECURSIVE PolygonSeqShapes(_, _)
PolygonSeqShapes(budget, polygons) ==
    IF polygons = 0 THEN {<<>>}
    ELSE UNION {{<<sh>> \o t : t \in PolygonSeqShapes(budget - Sum(sh), polygons - 1)}
                : sh \in PolygonShapes(budget)}
MultiPolygonShapes(budget) == UNION {PolygonSeqShapes(budget, p) : p \in PolygonCounts}

RECURSIVE CutRings(_, _)
\* the flat sequence of points cut into rings of the given lengths
CutRings(fill, lens) ==
    IF lens = <<>> THEN <<>>
    ELSE <<JList(SubSeq(fill, 1, Head(lens)))>>
         \o CutRings(SubSeq(fill, Head(lens) + 1, Len(fill)), Tail(lens))
RECURSIVE CutPolygons(_, _)
CutPolygons(fill, shape) ==
    IF shape = <<>> THEN <<>>
    ELSE <<JList(CutRings(SubSeq(fill, 1, Sum(Head(shape))), Head(shape)))>>
         \o CutPolygons(SubSeq(fill, Sum(Head(shape)) + 1, Len(fill)), Tail(shape))

GeometryTypes == {"Point", "LineString", "Polygon", "MultiPoint",
                  "MultiLineString", "MultiPolygon", "GeometryCollection"}

\* malformed geometries: null, {}, no type, an unknown type, no or empty coordinates
BadGeometries ==
    {JNull, JEmpty,
     JGeometry(FALSE, "", TRUE, JList(<<Point2(0, 0), Point2(1, 1), Point2(2, 0)>>), FALSE, <<>>),
     Typed("Circle", JList(<<Point2(0, 0), Point2(1, 1), Point2(2, 0)>>))}
    \cup {NoCoordinates(t) : t \in GeometryTypes}
    \cup {Typed(t, JList(<<>>)) : t \in GeometryTypes}

PointInputs == {Typed("Point", p) : p \in GridPoints \cup HighPoints}
\* a MultiPoint entry is a point, or (malformed) a bare number
MultiPointEntries == RingPoints \cup HighPoints \cup {JNum(1)}
MultiPointInputs ==
    {Typed("MultiPoint", JList(s)) : s \in SeqsUpTo(MultiPointEntries, MaxMulti)}
HighLineInputs ==
    {Typed("LineString", JList(s)) : s \in SeqsUpTo(HighPoints \cup {Point2(0, 0)}, MaxMulti)}
Members ==
    {JEmpty, Typed("Point", Point2(1, 1)), Typed("Point", Point3(1, 0, 3)),
     Typed("LineString", JList(<<Point2(0, 0), Point2(1, 1), Point2(2, 0)>>)),
     Typed("MultiPoint", JList(<<Point2(0, 0), Point2(1, 1)>>))}
CollectionInputs ==
    {JGeometry(TRUE, "GeometryCollection", FALSE, JNum(0), TRUE, s)
        : s \in SeqsUpTo(Members, MaxMulti)}
SmallInputs ==
    BadGeometries \cup PointInputs \cup MultiPointInputs \cup HighLineInputs
    \cup CollectionInputs

(***************************************************************************)
(* Call harness: one function of the module applied to one input.          *)
(***************************************************************************)
LoopIdle ==
    /\ features = <<>>
    /\ orig = <<>>
    /\ idx = 0
    /\ pc = "call"
    /\ geom = None
    /\ work_geom = None
    /\ coords_before = 0
    /\ optimized_features = <<>>
    /\ total_coords_before = 0
    /\ total_coords_after = 0

UnchangedLoop ==
    UNCHANGED <<features, orig, idx, pc, geom, work_geom, coords_before,
                optimized_features, total_coords_before, total_coords_after>>

\* the state before the call of a function on the stored argument
Loaded(s, value) ==
    /\ mem = s.mem
    /\ arg = s.r
    /\ pre = value
    /\ call = "none"
    /\ ret = None
    /\ simplify_tolerance = Fraction(0, 1)
    /\ coord_precision = 0
    /\ LoopIdle

LoadGeometry(j) == Loaded(StoreGeometry(EmptyMem, j), j)

InitCall ==
    \/ \E line \in LineInputs :
          Loaded(Store(EmptyMem, JList(line)), JList(line))
    \/ \E j \in SmallInputs : LoadGeometry(j)
    \/ \E line \in LineInputs : LoadGeometry(Typed("LineString", JList(line)))
    \/ \E type \in {"Polygon", "MultiLineString"} :
          \E sh \in PolygonShapes(MaxRingPts) :
             \E fill \in [1..Sum(sh) -> RingPoints] :
                LoadGeometry(Typed(type, JList(CutRings(fill, sh))))
    \/ \E sh \in MultiPolygonShapes(MaxPolyPts) :
          \E fill \in [1..SumSum(sh) -> RingPoints] :
             LoadGeometry(Typed("MultiPolygon", JList(CutPolygons(fill, sh))))

\* the call returns s.r and leaves the heap s.mem
Returns(s) == mem' = s.mem /\ ret' = s.r

CallSimplifyLine ==
    /\ call = "none"
    /\ arg.k = "ref"
    /\ \E tol \in Tolerances :
          /\ Returns(simplify_line(mem, arg, tol))
          /\ simplify_tolerance' = tol
    /\ call' = "simplify_line"
    /\ UNCHANGED <<arg, pre, coord_precision>>
    /\ UnchangedLoop

CallCountCoordinates ==
    /\ call = "none"
    /\ arg.k \in {"dict", "none"}
    /\ ret' = Num(count_coordinates(mem, arg))
    /\ call' = "count_coordinates"
    /\ UNCHANGED <<mem, arg, pre, simplify_tolerance, coord_precision>>
    /\ UnchangedLoop

CallSimplifyGeometry ==
    /\ call = "none"
    /\ arg.k \in {"dict", "none"}
    /\ \E tol \in Tolerances :
          /\ Returns(simplify_geometry(mem, arg, tol))
          /\ simplify_tolerance' = tol
    /\ call' = "simplify_geometry"
    /\ UNCHANGED <<arg, pre, coord_precision>>
    /\ UnchangedLoop

CallRoundCoordinates ==
    /\ call = "none"
    /\ arg.k \in {"dict", "none"}
    /\ \E p \in Precisions :
          /\ Returns(round_coordinates(mem, arg, p))
          /\ coord_precision' = p
    /\ call' = "round_coordinates"
    /\ UNCHANGED <<arg, pre, simplify_tolerance>>
    /\ UnchangedLoop

NextCall ==
    \/ CallSimplifyLine
    \/ CallCountCoordinates
    \/ CallSimplifyGeometry
    \/ CallRoundCoordinates

SpecCall == InitCall /\ [][NextCall]_vars

(***************************************************************************)
(* optimize_geojson: the loop over data['features'].  A feature is a dict  *)
(* that the loop only reads (feature.get, feature.copy): it is carried as  *)
(* the value of its 'geometry' key, hasGeometry telling whether it has one.*)
(***************************************************************************)
Feature(hasGeometry, geometry) == [hasGeometry |-> hasGeometry, geometry |-> geometry]

Triangle == <<Point2(0, 0), Point2(2, 0), Point2(1, 1), Point2(0, 0)>>
Bend == <<Point2(0, 0), Point2(1, 1), Point2(2, 0)>>

FeatureGeometries ==
    {JNull, JEmpty,
     JGeometry(FALSE, "", TRUE, JList(Bend), FALSE, <<>>),
     Typed("Circle", JList(Bend)),
     NoCoordinates("Point"), NoCoordinates("LineString"), NoCoordinates("Polygon"),
     Typed("LineString", JList(<<>>)),
     Typed("Point", Point2(1, 1)),
     Typed("MultiPoint", JList(<<Point2(0, 0), Point2(1, 1)>>)),
     Typed("LineString", JList(<<Point2(1, 1), Point2(2, 0)>>)),
     Typed("LineString", JList(Bend)),
     Typed("Polygon", JList(<<JList(Triangle)>>)),
     Typed("Polygon", JList(<<JList(<<Point2(0, 0)>> \o Triangle), JList(Bend)>>)),
     Typed("MultiLineString", JList(<<JList(<<Point2(1, 1), Point2(2, 0)>>), JList(Bend)>>)),
     Typed("MultiPolygon", JList(<<JList(<<JList(Triangle)>>), JList(<<>>)>>)),
     JGeometry(TRUE, "GeometryCollection", FALSE, JNum(0), TRUE,
               <<Typed("Point", Point2(1, 1)), Typed("LineString", JList(Bend))>>)}

\* a feature without the key 'geometry', and the features with one
FeaturePool ==
    {Feature(FALSE, JNull)} \cup {Feature(TRUE, g) : g \in FeatureGeometries}

LoopTolerances == {Fraction(1, 2), Fraction(3, 1)}

RECURSIVE StoreFeatures(_, _, _)
RECURSIVE StoreMoreFeatures(_, _, _)
\* json.load of the features: [mem, items]
StoreFeatures(M, js, acc) ==
    IF js = <<>> THEN [mem |-> M, items |-> acc]
    ELSE StoreMoreFeatures(StoreGeometry(M, Head(js).geometry), js, acc)
StoreMoreFeatures(s, js, acc) ==
    StoreFeatures(s.mem, Tail(js), Append(acc, Feature(Head(js).hasGeometry, s.r)))

\* the JSON value of a feature
FeatureValue(M, f) == Feature(f.hasGeometry, DerefGeometry(M, f.geometry))

CallIdle ==
    /\ call = "none"
    /\ arg = None
    /\ ret = None
    /\ pre = JNull

UnchangedCall == UNCHANGED <<call, arg, ret, pre>>

\* the state at "for idx, feature in enumerate(features)"
Opened(s, fs, tol, p) ==
    /\ mem = s.mem
    /\ features = s.items
    /\ orig = fs
    /\ simplify_tolerance = tol
    /\ coord_precision = p
    /\ idx = 1
    /\ pc = "for"
    /\ geom = None
    /\ work_geom = None
    /\ coords_before = 0
    /\ optimized_features = <<>>
    /\ total_coords_before = 0
    /\ total_coords_after = 0
    /\ CallIdle

Init ==
    \E n \in 0..MaxFeatures :
       \E fs \in [1..n -> FeaturePool] :
          \E tol \in LoopTolerances :
             \E p \in Precisions :
                Opened(StoreFeatures(EmptyMem, fs, <<>>), fs, tol, p)

\* feature.get('geometry', {}): [mem, r], a new empty dict when the key is absent
GetGeometry(M, f) ==
    IF f.hasGeometry THEN [mem |-> M, r |-> f.geometry]
    ELSE NewDict(M, Geometry(FALSE, "", FALSE, None, FALSE, <<>>))

\* a variant without the copy, the feature's own dict handed on: C10 tells
\* it from geom_copy
geom_alias(M, g) == [mem |-> M, r |-> g]

\* geom.copy(): a new dict with the same values under the same keys
geom_copy(M, g) == NewDict(M, M.dicts[g.v])

\* geom is s.r; "coords_before = count_coordinates(geom)"
Counted(s) ==
    /\ mem' = s.mem
    /\ geom' = s.r
    /\ coords_before' = count_coordinates(s.mem, s.r)
    /\ total_coords_before' = total_coords_before + count_coordinates(s.mem, s.r)

CountBefore ==
    /\ pc = "for"
    /\ idx <= Len(features)
    /\ Counted(GetGeometry(mem, features[idx]))
    /\ pc' = "simplify"
    /\ UNCHANGED <<simplify_tolerance, coord_precision, features, orig, idx,
                   work_geom, optimized_features, total_coords_after>>
    /\ UnchangedCall

\* the geometry s.r comes back from simplify_geometry or round_coordinates
Worked(s) == mem' = s.mem /\ work_geom' = s.r

SimplifyCopy(copy) == Worked(simplify_geometry(copy.mem, copy.r, simplify_tolerance))

\* simplified_geom = simplify_geometry(geom.copy(), simplify_tolerance);
\* None has no attribute copy: the AttributeError leaves optimize_geojson
Simplify ==
    /\ pc = "simplify"
    /\ \/ /\ geom.k = "dict"
          /\ SimplifyCopy(geom_copy(mem, geom))
          /\ pc' = "round"
       \/ /\ geom.k = "none"
          /\ pc' = "raised"
          /\ UNCHANGED <<mem, work_geom>>
    /\ UNCHANGED <<simplify_tolerance, coord_precision, features, orig, idx, geom,
                   coords_before, optimized_features, total_coords_before,
                   total_coords_after>>
    /\ UnchangedCall

\* rounded_geom = round_coordinates(simplified_geom, coord_precision)
Round ==
    /\ pc = "round"
    /\ Worked(round_coordinates(mem, work_geom, coord_precision))
    /\ pc' = "append"
    /\ UNCHANGED <<simplify_tolerance, coord_precision, features, orig, idx, geom,
                   coords_before, optimized_features, total_coords_before,
                   total_coords_after>>
    /\ UnchangedCall

\* count after; optimized_feature = feature.copy() with the new geometry
AppendFeature ==
    /\ pc = "append"
    /\ total_coords_after' = total_coords_after + count_coordinates(mem, work_geom)
    /\ optimized_features' = Append(optimized_features, Feature(TRUE, work_geom))
    /\ idx' = idx + 1
    /\ pc' = "for"
    /\ UNCHANGED <<mem, simplify_tolerance, coord_precision, features, orig, geom,
                   work_geom, coords_before, total_coords_before>>
    /\ UnchangedCall

\* the loop is over: output_data is built and written
Finish ==
    /\ pc = "for"
    /\ idx > Len(features)
    /\ pc' = "done"
    /\ UNCHANGED <<mem, simplify_tolerance, coord_precision, features, orig, idx,
                   geom, work_geom, coords_before, optimized_features,
                   total_coords_before, total_coords_after>>
    /\ UnchangedCall

Next == CountBefore \/ Simplify \/ Round \/ AppendFeature \/ Finish

Spec == Init /\ [][Next]_vars

(***************************************************************************)
(* Properties.  In the call harness, pre is the JSON value of the argument *)
(* before the call and Before the heap before the call; Before is a prefix *)
(* of mem, since objects are only ever added.                              *)
(***************************************************************************)
SimplifiedLine == call = "simplify_line"
SimplifiedGeometry == call = "simplify_geometry"
Counted0 == call = "count_coordinates"

\* the geometry passed in is a dict of this type whose coordinates are a list
IsTyped(j, type) ==
    j.k = "dict" /\ j.hasType /\ j.type = type /\ j.hasCoords /\ j.coordinates.k = "list"

\* the JSON value of the geometry after the call
After == DerefGeometry(mem, ret)

\* the heap before the call of a geometry function
Before == StoreGeometry(EmptyMem, pre).mem

\* the polygons of a MultiPolygon that have at least one ring
WithRings(polygons) == SelectSeq(polygons, LAMBDA polygon : polygon.v # <<>>)

RECURSIVE IsSubsequence(_, _)
\* out is in with some items left out
IsSubsequence(out, in) ==
    IF out = <<>> THEN TRUE
    ELSE IF in = <<>> THEN FALSE
    ELSE IF Head(out) = Head(in) THEN IsSubsequence(Tail(out), Tail(in))
    ELSE IsSubsequence(out, Tail(in))

\* out is in's first item, some of in's inner items in their order, in's last item
KeepsEnds(out, in) ==
    IF Len(in) <= 1 THEN out = in
    ELSE /\ Len(out) >= 2
         /\ out[1] = in[1]
         /\ out[Len(out)] = in[Len(in)]
         /\ IsSubsequence(SubSeq(out, 2, Len(out) - 1), SubSeq(in, 2, Len(in) - 1))

\* out starts and ends with the coordinates in starts and ends with
SameEnds(out, in) ==
    IF in = <<>> THEN out = <<>>
    ELSE out # <<>> /\ out[1] = in[1] /\ out[Len(out)] = in[Len(in)]

RingsSameEnds(outs, ins) ==
    /\ Len(outs) = Len(ins)
    /\ \A i \in 1..Len(ins) : SameEnds(outs[i].v, ins[i].v)

\* C1: simplify_line returns an order-preserving subsequence of its input
\* that starts with the input's first point and ends with its last point;
\* every LineString and every Polygon / MultiPolygon ring that
\* simplify_geometry puts out starts and ends with the coordinates of the
\* input line or ring it comes from.
C1_EndpointsPreserved ==
    /\ SimplifiedLine => KeepsEnds(Deref(mem, ret).v, pre.v)
    /\ SimplifiedGeometry /\ IsTyped(pre, "LineString") =>
          SameEnds(After.coordinates.v, pre.coordinates.v)
    /\ SimplifiedGeometry /\ IsTyped(pre, "Polygon") =>
          RingsSameEnds(After.coordinates.v, pre.coordinates.v)
    /\ SimplifiedGeometry /\ IsTyped(pre, "MultiPolygon") =>
          /\ Len(After.coordinates.v) = Len(WithRings(pre.coordinates.v))
          /\ \A p \in 1..Len(After.coordinates.v) :
                RingsSameEnds(After.coordinates.v[p].v, WithRings(pre.coordinates.v)[p].v)

\* a line of four points or more was cut down to three: an inner point was
\* kept, others were dropped
C1_Witness ==
    /\ SimplifiedLine
    /\ Len(pre.v) >= 4
    /\ Len(Items(mem, ret)) = 3

\* the positions of the input whose point object is in the output
RetainedPositions(in, out) == {i \in 1..Len(in) : \E j \in 1..Len(out) : out[j] = in[i]}

\* the items of in at the positions ps, in their order
Picked(in, ps) ==
    [j \in 1..Cardinality(ps) |->
        in[CHOOSE i \in ps : Cardinality({m \in ps : m < i}) = j - 1]]

\* the retained positions next to k on either side
RetainedBefore(ps, k) == CHOOSE a \in ps : a < k /\ \A m \in ps : m < k => m <= a
RetainedAfter(ps, k) == CHOOSE b \in ps : b > k /\ \A m \in ps : m > k => m >= b

\* the point at position k is within the tolerance of the line through the
\* retained points around it
DroppedWithin(M, in, ps, k, tol) ==
    ~Greater(perpendicular_distance(M, in[k], in[RetainedBefore(ps, k)],
                                    in[RetainedAfter(ps, k)]),
             Square(tol))

\* C2: every point simplify_line drops lies within the tolerance of the line
\* through the two retained points that are adjacent in the output and
\* bracket it in the input.
C2_DroppedWithinTolerance ==
    SimplifiedLine =>
        /\ Picked(Items(mem, arg), RetainedPositions(Items(mem, arg), Items(mem, ret)))
              = Items(mem, ret)
        /\ Len(Items(mem, arg)) >= 1 =>
              {1, Len(Items(mem, arg))}
                 \subseteq RetainedPositions(Items(mem, arg), Items(mem, ret))
        /\ \A k \in 1..Len(Items(mem, arg)) :
              k \notin RetainedPositions(Items(mem, arg), Items(mem, ret)) =>
                 DroppedWithin(mem, Items(mem, arg),
                               RetainedPositions(Items(mem, arg), Items(mem, ret)),
                               k, simplify_tolerance)

\* a point off the line through its retained neighbours was dropped, and an
\* inner point was retained
C2_Witness ==
    /\ SimplifiedLine
    /\ Len(Items(mem, ret)) >= 3
    /\ \E k \in 1..Len(Items(mem, arg)) :
          /\ k \notin RetainedPositions(Items(mem, arg), Items(mem, ret))
          /\ Greater(perpendicular_distance(
                        mem, Items(mem, arg)[k],
                        Items(mem, arg)[RetainedBefore(
                            RetainedPositions(Items(mem, arg), Items(mem, ret)), k)],
                        Items(mem, arg)[RetainedAfter(
                            RetainedPositions(Items(mem, arg), Items(mem, ret)), k)]),
                     Zero)

RingsAtLeast4(outs, ins) ==
    /\ Len(outs) = Len(ins)
    /\ \A i \in 1..Len(ins) :
          \/ Len(outs[i].v) >= 4
          \/ Len(ins[i].v) < 4 /\ outs[i] = ins[i]

\* C3: each ring in the output of simplify_geometry for a Polygon or a
\* MultiPolygon has at least 4 points, unless the input ring it comes from
\* had fewer than 4 points, and then the output ring is that input ring.
C3_MinimumVertexFloor ==
    /\ SimplifiedGeometry /\ IsTyped(pre, "Polygon") =>
          RingsAtLeast4(After.coordinates.v, pre.coordinates.v)
    /\ SimplifiedGeometry /\ IsTyped(pre, "MultiPolygon") =>
          /\ Len(After.coordinates.v) = Len(WithRings(pre.coordinates.v))
          /\ \A p \in 1..Len(After.coordinates.v) :
                RingsAtLeast4(After.coordinates.v[p].v, WithRings(pre.coordinates.v)[p].v)

\* a polygon with a ring of 5 points that comes out with 4, beside a ring of
\* under 4 points
C3_Witness ==
    /\ SimplifiedGeometry
    /\ IsTyped(pre, "Polygon")
    /\ \E i, j \in 1..Len(pre.coordinates.v) :
          /\ Len(pre.coordinates.v[i].v) = 5
          /\ Len(After.coordinates.v[i].v) = 4
          /\ Len(pre.coordinates.v[j].v) < 4

\* the rings of the polygons of the MultiPolygon passed in, in the heap M
RingsOf(M, g) ==
    UNION {{Items(M, polygon)[i] : i \in 1..PyLen(M, polygon)}
               : polygon \in {Items(M, M.dicts[g.v].coordinates)[p]
                                 : p \in 1..PyLen(M, M.dicts[g.v].coordinates)}}

\* every ring of every polygon simplifies to fewer than 4 points
AllRingsCollapse ==
    \A ring \in RingsOf(Before, arg) :
        Len(Items(simplify_line(Before, ring, simplify_tolerance).mem,
                  simplify_line(Before, ring, simplify_tolerance).r)) < 4

\* C4 as claimed: for a MultiPolygon whose every ring simplifies to fewer
\* than 4 points, simplify_geometry returns a geometry whose coordinates
\* hold zero polygons.
C4_AllPolygonsDropped ==
    SimplifiedGeometry /\ IsTyped(pre, "MultiPolygon") /\ AllRingsCollapse =>
        ret.k = "dict" /\ After.coordinates.v = <<>>

\* C4 amended: for a MultiPolygon whose every ring simplifies to fewer than
\* 4 points, simplify_geometry returns a geometry whose coordinates hold the
\* input polygons that have at least one ring, with their rings unchanged:
\* only a polygon without rings is dropped.
C4_PolygonsWithRingsKept ==
    SimplifiedGeometry /\ IsTyped(pre, "MultiPolygon") /\ AllRingsCollapse =>
        ret.k = "dict" /\ After.coordinates.v = WithRings(pre.coordinates.v)

\* two polygons, one of a ring of 4 points that collapses and one without
\* rings: the first is kept as it was, the second dropped
C4_Witness ==
    /\ SimplifiedGeometry
    /\ IsTyped(pre, "MultiPolygon")
    /\ AllRingsCollapse
    /\ Len(pre.coordinates.v) = 2
    /\ Len(After.coordinates.v) = 1
    /\ \E ring \in RingsOf(Before, arg) : PyLen(Before, ring) = 4

\* C5 as claimed: after simplify_geometry a geometry passed in with
\* coordinates holds the type and the coordinates it held before the call.
C5_ArgumentUntouched ==
    SimplifiedGeometry /\ pre.k = "dict" /\ pre.hasCoords => DerefGeometry(mem, arg) = pre

\* C5 amended: simplify_geometry returns the geometry it was given, after
\* binding its coordinates to the simplified ones; its type and the other
\* keys are as before, a Point, a MultiPoint, a geometry of no or an unknown
\* type is as before, and no list that existed before the call is changed
\* (so a shallow copy made before the call keeps the original coordinates).
C5_OnlyCoordinatesRebound ==
    SimplifiedGeometry =>
        /\ ret = arg
        /\ After.hasType = pre.hasType
        /\ After.type = pre.type
        /\ After.hasGeoms = pre.hasGeoms
        /\ After.geometries = pre.geometries
        /\ (pre.k = "none" \/ ~pre.hasType
              \/ pre.type \notin {"LineString", "MultiLineString", "Polygon", "MultiPolygon"})
              => After = pre
        /\ \A i \in 1..Len(Before.lists) : mem.lists[i] = Before.lists[i]
        /\ pre.k = "dict" /\ pre.hasCoords =>
              Deref(mem, Before.dicts[arg.v].coordinates) = pre.coordinates

\* a LineString whose coordinates are fewer after the call
C5_Witness ==
    /\ SimplifiedGeometry
    /\ IsTyped(pre, "LineString")
    /\ Len(After.coordinates.v) < Len(pre.coordinates.v)

\* C6 as claimed: for a LineString and for a MultiPoint, count_coordinates
\* returns the number of entries of the coordinates (a bare number among a
\* MultiPoint's entries counting as 1).
C6_CountsEntries ==
    Counted0 /\ (IsTyped(pre, "LineString") \/ IsTyped(pre, "MultiPoint")) =>
        ret = Num(Len(pre.coordinates.v))

\* missing, empty, of no or an unknown type, or without coordinates (a
\* GeometryCollection has its members under 'geometries' instead)
Malformed(j) ==
    \/ j.k = "none"
    \/ j = JEmpty
    \/ ~j.hasType
    \/ j.type \notin GeometryTypes
    \/ ~j.hasCoords /\ j.type # "GeometryCollection"

\* C7 as claimed: count_coordinates returns 0 for a geometry that is
\* missing, empty, of an unrecognized or absent type, or that has no
\* coordinates, whatever its type (Point too), and never a negative number.
C7_ZeroWhenMalformed ==
    Counted0 => ret.v >= 0 /\ (Malformed(pre) => ret.v = 0)

\* three consecutive points on one line
Collinear(a, b, c) ==
    (b.v[1].v - a.v[1].v) * (c.v[2].v - a.v[2].v)
        = (b.v[2].v - a.v[2].v) * (c.v[1].v - a.v[1].v)
NoThreeCollinear(points) ==
    \A i \in 1..(Len(points) - 2) : ~Collinear(points[i], points[i + 1], points[i + 2])

\* C9: with tolerance 0, simplify_line returns its input unchanged when no
\* three consecutive points are collinear, closed rings included.
C9_ZeroToleranceFixedPoint ==
    SimplifiedLine /\ simplify_tolerance.n = 0 /\ NoThreeCollinear(pre.v) =>
        Deref(mem, ret) = pre

\* a closed ring of four points or more, no three consecutive ones collinear
C9_Witness ==
    /\ SimplifiedLine
    /\ simplify_tolerance.n = 0
    /\ NoThreeCollinear(pre.v)
    /\ Len(pre.v) >= 4
    /\ pre.v[1] = pre.v[Len(pre.v)]
    /\ Len(Items(mem, ret)) = Len(pre.v)

\* the geometry of the feature is one the engine cannot optimize
BadFeature(f) ==
    \/ ~f.hasGeometry
    \/ Malformed(f.geometry)
    \/ f.geometry.coordinates.k = "list" /\ f.geometry.coordinates.v = <<>>

\* the geometry a feature is to come out with when it is passed through
PassedThrough(f) == IF f.hasGeometry THEN f.geometry ELSE JEmpty

\* C8 as claimed: the loop never aborts on a feature whose geometry is
\* missing (null), empty, without type, without or with empty coordinates or
\* of an unknown type: no error is raised, and at the end the output holds
\* one feature per input feature, in order, the bad ones' geometries as they
\* were.
C8_NeverAborts ==
    /\ pc # "raised"
    /\ pc = "done" =>
          /\ Len(optimized_features) = Len(features)
          /\ \A i \in 1..Len(features) :
                BadFeature(orig[i]) =>
                   DerefGeometry(mem, optimized_features[i].geometry) = PassedThrough(orig[i])

\* C10: during the pass no input feature's geometry is changed: after
\* simplify_geometry and round_coordinates were applied to the shallow copy
\* of the geometry of a feature, the geometry of every input feature has the
\* type and the coordinates it had before the pass.
C10_InputNotMutated ==
    \A i \in 1..Len(features) : FeatureValue(mem, features[i]) = orig[i]

\* a LineString of 2 points, which simplify_line returns as it is, came out
\* of round_coordinates with other coordinates than the feature's
C10_Witness ==
    /\ pc = "append"
    /\ IsTyped(orig[idx].geometry, "LineString")
    /\ Len(orig[idx].geometry.coordinates.v) = 2
    /\ DerefGeometry(mem, work_geom) # orig[idx].geometry

====
